---------------------------- MODULE Spec2Model ----------------------------
(***************************************************************************)
(* blaze-mcp: the tool dispatcher (tools/__init__.py and the six group     *)
(* handlers), the BlazeClient facade with its pool of per-base-URL         *)
(* transport handles (client.py), and the settings (config.py).            *)
(*                                                                         *)
(* Python strings that the code inspects character by character (URLs:     *)
(* rstrip("/"), startswith) are sequences of one-character strings.  Other *)
(* strings (resource types, ids, tool names) are opaque TLA+ strings.      *)
(* Python values carried in an argument mapping are tagged records         *)
(* [t |-> tag, v |-> payload] so that None, integers and strings stay      *)
(* distinguishable, as they are for min(), truthiness and attribute        *)
(* access in the code.                                                     *)
(*                                                                         *)
(* asyncio runs one coroutine at a time and switches only at an await that *)
(* really suspends: the network round trip of a facade call and            *)
(* client.aclose().  Everything between two such points is one action.     *)
(***************************************************************************)
EXTENDS Integers, Sequences, FiniteSets, TLC

(***************************************************************************)
(* Bounds of the model.                                                    *)
(***************************************************************************)
\* transport handles created in one behaviour
MaxHandles == 3
\* entries of a parameter mapping handed to _build_url
MaxParams == 3
\* entries of the bundle that patient_everything summarizes
MaxEntries == 3

(***************************************************************************)
(* config.py: Settings defaults.                                           *)
(***************************************************************************)
default_page_size == 20
max_page_size == 100

\* "http://localhost:8080/fhir"
blaze_base_url ==
    <<"h","t","t","p",":","/","/","l","o","c","a","l","h","o","s","t",":","8","0","8","0","/","f","h","i","r">>

(***************************************************************************)
(* Python values.                                                          *)
(***************************************************************************)
NoneV == [t |-> "none", v |-> 0]
IntV(n) == [t |-> "int", v |-> n]
\* a str whose characters matter (a URL)
StrV(s) == [t |-> "str", v |-> s]
\* an opaque non-empty str or JSON object
TokV(s) == [t |-> "tok", v |-> s]
\* a dict used as a parameter mapping: a sequence of [k, v] in insertion order
DictV(d) == [t |-> "dict", v |-> d]
\* a list of values
ListV(l) == [t |-> "list", v |-> l]

\* bool(x) as `if x:` evaluates it
Truthy(x) ==
    CASE x.t = "none" -> FALSE
      [] x.t = "int"  -> x.v # 0
      [] x.t = "str"  -> Len(x.v) > 0
      [] x.t = "dict" -> Len(x.v) > 0
      [] x.t = "list" -> Len(x.v) > 0
      [] OTHER        -> TRUE

\* arguments.get(key): the value, or None when the key is absent
Get(arguments, key) ==
    IF key \in DOMAIN arguments THEN arguments[key] ELSE NoneV

\* arguments.get(key, default)
GetOr(arguments, key, default) ==
    IF key \in DOMAIN arguments THEN arguments[key] ELSE default

(***************************************************************************)
(* str methods on character sequences.                                     *)
(***************************************************************************)
\* rstrip with the fault of stripping nothing
rstrip_nothing(s) == s

RECURSIVE rstrip(_)
\* s.rstrip("/")
rstrip(s) ==
    IF Len(s) > 0 /\ s[Len(s)] = "/" THEN rstrip(SubSeq(s, 1, Len(s) - 1)) ELSE s

\* s.startswith(p)
startswith(s, p) == Len(s) >= Len(p) /\ SubSeq(s, 1, Len(p)) = p

HttpPrefix == <<"h","t","t","p",":","/","/">>
HttpsPrefix == <<"h","t","t","p","s",":","/","/">>

\* has_scheme with the fault of rejecting only an empty value
has_scheme_nonempty(url) == Len(url) > 0

\* url.startswith(("http://", "https://"))
has_scheme(url) == startswith(url, HttpPrefix) \/ startswith(url, HttpsPrefix)


(***************************************************************************)
(* dict operations on a sequence of [k, v] entries (insertion order).      *)
(***************************************************************************)
DictHas(d, key) == \E i \in 1..Len(d) : d[i].k = key

DictIndex(d, key) == CHOOSE i \in 1..Len(d) : d[i].k = key

\* d[key] = value: an existing key keeps its position, a new one is appended
DictSet(d, key, value) ==
    IF DictHas(d, key)
    THEN [d EXCEPT ![DictIndex(d, key)] = [k |-> key, v |-> value]]
    ELSE Append(d, [k |-> key, v |-> value])

\* {key: value} if value else {}   (the `if x: params[key] = x` idiom)
SetIfTruthy(d, key, value) == IF Truthy(value) THEN DictSet(d, key, value) ELSE d

\* params or None
OrNone(d) == IF Len(d) > 0 THEN DictV(d) ELSE NoneV

(***************************************************************************)
(* client.py: BlazeClient._build_url.  The built URL is the path, whether  *)
(* a "?" follows it, and the encoded key=value pairs in order.             *)
(***************************************************************************)
\* urlencode with the fault of doseq=False: a list value gives one pair
urlencode_joined(d) == d

RECURSIVE urlencode(_)
\* urlencode(filtered, doseq=True): a list value gives one pair per element
urlencode(d) ==
    IF Len(d) = 0 THEN <<>>
    ELSE LET e == Head(d)
             pairs == IF e.v.t = "list"
                      THEN [i \in 1..Len(e.v.v) |-> [k |-> e.k, v |-> e.v.v[i]]]
                      ELSE <<e>>
         IN  pairs \o urlencode(Tail(d))

_build_url(path, params) ==
    LET filtered == IF Truthy(params)
                    THEN SelectSeq(params.v, LAMBDA e : e.v.t # "none")
                    ELSE <<>>
    IN  IF Len(filtered) > 0
        THEN [path |-> path, mark |-> TRUE, query |-> urlencode(filtered)]
        ELSE [path |-> path, mark |-> FALSE, query |-> <<>>]

\* a URL that is a bare f-string path
BarePath(path) == [path |-> path, mark |-> FALSE, query |-> <<>>]

(***************************************************************************)
(* client.py: the facade methods, from after `await self._get_client()`    *)
(* up to the request handed to the transport handle.  a is the tuple of    *)
(* positional arguments as the handler passes them.                        *)
(***************************************************************************)
Request(method, url, body) == [method |-> method, url |-> url, body |-> body]

read(a) == Request("GET", BarePath(<<"/", a[1].v, "/", a[2].v>>), FALSE)

vread(a) ==
    Request("GET", BarePath(<<"/", a[1].v, "/", a[2].v, "/_history/", a[3].v>>), FALSE)

\* dict(params or {}); if count: search_params["_count"] = count
search_params(params, count) ==
    SetIfTruthy(IF Truthy(params) THEN params.v ELSE <<>>, "_count", count)

search(a) ==
    Request("GET", _build_url(<<"/", a[1].v>>, DictV(search_params(a[2], a[3]))), FALSE)

search_system(a) ==
    Request("GET", _build_url(<<"/">>, DictV(search_params(a[1], a[2]))), FALSE)

create(a) == Request("POST", BarePath(<<"/", a[1].v>>), TRUE)

update(a) == Request("PUT", BarePath(<<"/", a[1].v, "/", a[2].v>>), TRUE)

delete(a) == Request("DELETE", BarePath(<<"/", a[1].v, "/", a[2].v>>), FALSE)

history(a) ==
    Request("GET",
            _build_url(<<"/", a[1].v, "/", a[2].v, "/_history">>,
                       OrNone(SetIfTruthy(<<>>, "_count", a[3]))),
            FALSE)

transaction(a) == Request("POST", BarePath(<<"/">>), TRUE)

capabilities == Request("GET", BarePath(<<"/metadata">>), FALSE)

patient_everything(a) ==
    Request("GET",
            _build_url(<<"/Patient/", a[1].v, "/$everything">>,
                       OrNone(SetIfTruthy(SetIfTruthy(SetIfTruthy(<<>>,
                           "start", a[2]), "end", a[3]), "_count", a[4]))),
            FALSE)

evaluate_measure(a) ==
    Request("GET",
            _build_url(<<"/Measure/", a[1].v, "/$evaluate-measure">>,
                       DictV(SetIfTruthy(<<[k |-> "periodStart", v |-> a[2]],
                                           [k |-> "periodEnd", v |-> a[3]]>>,
                                         "subject", a[4]))),
            FALSE)

graphql(a) == Request("POST", BarePath(<<"/$graphql">>), TRUE)

validate_code(a) ==
    Request("GET",
            _build_url(<<"/CodeSystem/$validate-code">>,
                       DictV(SetIfTruthy(<<[k |-> "system", v |-> a[1]],
                                           [k |-> "code", v |-> a[2]]>>,
                                         "display", a[3]))),
            FALSE)

expand_valueset(a) ==
    Request("GET",
            _build_url(IF Truthy(a[1]) THEN <<"/ValueSet/", a[1].v, "/$expand">>
                                       ELSE <<"/ValueSet/$expand">>,
                       OrNone(SetIfTruthy(SetIfTruthy(SetIfTruthy(<<>>,
                           "url", a[2]), "filter", a[3]), "count", a[4]))),
            FALSE)

lookup_code(a) ==
    Request("GET",
            _build_url(<<"/CodeSystem/$lookup">>,
                       DictV(<<[k |-> "system", v |-> a[1]], [k |-> "code", v |-> a[2]]>>)),
            FALSE)

totals == Request("GET", BarePath(<<"/$totals">>), FALSE)

compact(a) ==
    Request("POST",
            _build_url(<<"/$compact">>, OrNone(SetIfTruthy(<<>>, "column-family", a[1]))),
            FALSE)

reindex(a) ==
    Request("POST",
            _build_url(<<"/$re-index">>,
                       OrNone(SetIfTruthy(SetIfTruthy(<<>>,
                           "type", a[1]), "search-param", a[2]))),
            FALSE)


(***************************************************************************)
(* State.                                                                  *)
(***************************************************************************)
VARIABLES
    \* config.py: settings.admin_tools_enabled, fixed at process start
    admin_tools_enabled,
    \* BlazeClient._base_url, the active base URL
    base_url,
    \* BlazeClient._clients: the dict url -> handle, as [k |-> url, v |-> handle]
    \* entries in insertion order
    clients,
    \* every httpx.AsyncClient constructed so far, by handle number:
    \* [base_url |-> its base_url, closed |-> whether aclose() has run on it]
    handles,
    \* bookkeeping: Len(handles) when _clients.clear() last ran
    epoch,
    \* the tool calls (coroutines of call_tool), one per session: where each
    \* is, its locals, and once it is done what it hands to the protocol layer
    tasks,
    \* the coroutine running BlazeClient.close()
    closer,
    \* server.py: run_stdio_server / run_sse_server: which of the two runs
    \* (mode), where it is (serving, closing in its finally clause, exited),
    \* and how the inbound transport ended (returned or raised)
    server

vars ==
    <<admin_tools_enabled, base_url, clients, handles, epoch, tasks, closer, server>>

(***************************************************************************)
(* The tool catalog: names per group (the name= of each Tool(...)).        *)
(***************************************************************************)
CONNECTION_TOOLS == <<"set_blaze_url", "get_blaze_url", "test_connection">>

CRUD_TOOLS ==
    <<"read_resource", "vread_resource", "create_resource", "update_resource",
      "delete_resource", "get_history", "transaction">>

SEARCH_TOOLS == <<"search_resources", "search_system">>

TERMINOLOGY_TOOLS == <<"validate_code", "expand_valueset", "lookup_code">>

ADVANCED_TOOLS == <<"patient_everything", "evaluate_measure", "graphql_query">>

\* get_admin_tools with the fault of ignoring the flag
get_admin_tools_always == <<"get_totals", "run_compaction", "run_reindex">>

\* admin.py: get_admin_tools
get_admin_tools ==
    IF ~admin_tools_enabled THEN <<>>
    ELSE <<"get_totals", "run_compaction", "run_reindex">>

\* tools/__init__.py: get_all_tools
get_all_tools ==
    CONNECTION_TOOLS \o CRUD_TOOLS \o SEARCH_TOOLS \o TERMINOLOGY_TOOLS
        \o ADVANCED_TOOLS \o get_admin_tools

Range(f) == {f[i] : i \in DOMAIN f}

(***************************************************************************)
(* What a group handler has done when it returns or reaches the await of   *)
(* its facade call:                                                        *)
(*   none   it returned None (tool not handled)                            *)
(*   text   it returned [TextContent(text)]                                *)
(*   raise  an exception left the handler                                  *)
(*   seturl set_blaze_url passed validation: a[1] is the stripped url      *)
(*   probe  test_connection reached its try block: a[1] is test_url        *)
(*   call   the facade method op is called with the positional args a      *)
(* A text is a sequence of parts of the f-string that built it.            *)
(***************************************************************************)
NotHandled == [kind |-> "none", text |-> <<>>, op |-> "", a |-> <<>>]
Text(text) == [kind |-> "text", text |-> text, op |-> "", a |-> <<>>]
Raise(exc) == [kind |-> "raise", text |-> exc, op |-> "", a |-> <<>>]
SetUrl(url) == [kind |-> "seturl", text |-> <<>>, op |-> "", a |-> <<url>>]
Probe(test_url) == [kind |-> "probe", text |-> <<>>, op |-> "capabilities", a |-> <<test_url>>]
Call(op, a) == [kind |-> "call", text |-> <<>>, op |-> op, a |-> a]

\* ErrorText with the fault of another prefix than `Error:`
ErrorText_no_prefix(e) == <<"Failed: ", e>>

\* f"Error: {e!s}"
ErrorText(e) == <<"Error: ", e>>

\* the keys of `keys`, in order, that arguments lacks
Missing(arguments, keys) == SelectSeq(keys, LAMBDA key : key \notin DOMAIN arguments)

\* Evaluating arguments[k] for each k of keys inside a try block: the first
\* missing key raises KeyError, which the except clause turns into a text.
TryCall(arguments, keys, call) ==
    IF Len(Missing(arguments, keys)) > 0
    THEN Text(ErrorText(<<"KeyError", Head(Missing(arguments, keys))>>))
    ELSE call

(***************************************************************************)
(* tools/connection.py: handle_connection_tool, up to the await of         *)
(* client.capabilities().  Nothing here is inside a try block except the   *)
(* probe of test_connection.                                               *)
(***************************************************************************)
handle_connection_tool(name, arguments) ==
    CASE name = "set_blaze_url" ->
            IF "url" \notin DOMAIN arguments THEN Raise(<<"KeyError", "url">>)
            ELSE IF arguments["url"].t # "str" THEN Raise(<<"AttributeError", "rstrip">>)
            ELSE LET url == rstrip(arguments["url"].v)
                 IN  IF ~has_scheme(url)
                     THEN Text(ErrorText("URL must start with http:// or https://"))
                     ELSE SetUrl(url)
      [] name = "get_blaze_url" -> Text(<<"Current Blaze URL: ", base_url>>)
      [] name = "test_connection" ->
            LET test_url == Get(arguments, "url")
            IN  IF ~Truthy(test_url) THEN Probe(test_url)
                ELSE IF test_url.t # "str" THEN Raise(<<"AttributeError", "rstrip">>)
                ELSE Probe(StrV(rstrip(test_url.v)))
      [] OTHER -> NotHandled

(***************************************************************************)
(* tools/crud.py: handle_crud_tool, up to the await of the facade call.    *)
(***************************************************************************)
handle_crud_tool(name, arguments) ==
    CASE name = "read_resource" ->
            TryCall(arguments, <<"resource_type", "resource_id">>,
                Call("read", <<arguments["resource_type"], arguments["resource_id"]>>))
      [] name = "vread_resource" ->
            TryCall(arguments, <<"resource_type", "resource_id", "version_id">>,
                Call("vread", <<arguments["resource_type"], arguments["resource_id"],
                                arguments["version_id"]>>))
      [] name = "create_resource" ->
            TryCall(arguments, <<"resource_type", "resource">>,
                Call("create", <<arguments["resource_type"], arguments["resource"]>>))
      [] name = "update_resource" ->
            TryCall(arguments, <<"resource_type", "resource_id", "resource">>,
                Call("update", <<arguments["resource_type"], arguments["resource_id"],
                                 arguments["resource"]>>))
      [] name = "delete_resource" ->
            TryCall(arguments, <<"resource_type", "resource_id">>,
                Call("delete", <<arguments["resource_type"], arguments["resource_id"]>>))
      [] name = "get_history" ->
            TryCall(arguments, <<"resource_type", "resource_id">>,
                Call("history", <<arguments["resource_type"], arguments["resource_id"],
                                  Get(arguments, "count")>>))
      [] name = "transaction" ->
            TryCall(arguments, <<"bundle">>, Call("transaction", <<arguments["bundle"]>>))
      [] OTHER -> NotHandled

(***************************************************************************)
(* tools/search.py: handle_search_tool.  The count is read and clamped     *)
(* inside the try block before the tool name is looked at; min() of a      *)
(* value that is no number and an int raises TypeError.                    *)
(***************************************************************************)
Min(x, y) == IF x <= y THEN x ELSE y

\* min(count, settings.max_page_size)
clamp(count) == Min(count, max_page_size)

handle_search_tool(name, arguments) ==
    LET count0 == GetOr(arguments, "count", IntV(default_page_size))
    IN  IF count0.t # "int" THEN Text(ErrorText(<<"TypeError", count0.t>>))
        ELSE LET count == IntV(clamp(count0.v))
             IN  CASE name = "search_resources" ->
                        TryCall(arguments, <<"resource_type">>,
                            Call("search", <<arguments["resource_type"],
                                             Get(arguments, "params"), count>>))
                   [] name = "search_system" ->
                        Call("search_system", <<Get(arguments, "params"), count>>)
                   [] OTHER -> NotHandled

(***************************************************************************)
(* tools/terminology.py: handle_terminology_tool.                          *)
(***************************************************************************)
handle_terminology_tool(name, arguments) ==
    CASE name = "validate_code" ->
            TryCall(arguments, <<"system", "code">>,
                Call("validate_code", <<arguments["system"], arguments["code"],
                                        Get(arguments, "display")>>))
      [] name = "expand_valueset" ->
            Call("expand_valueset", <<Get(arguments, "valueset_id"), Get(arguments, "url"),
                                      Get(arguments, "filter"), Get(arguments, "count")>>)
      [] name = "lookup_code" ->
            TryCall(arguments, <<"system", "code">>,
                Call("lookup_code", <<arguments["system"], arguments["code"]>>))
      [] OTHER -> NotHandled

(***************************************************************************)
(* tools/advanced.py: handle_advanced_tool.                                *)
(***************************************************************************)
handle_advanced_tool(name, arguments) ==
    CASE name = "patient_everything" ->
            TryCall(arguments, <<"patient_id">>,
                Call("patient_everything", <<arguments["patient_id"], Get(arguments, "start"),
                                             Get(arguments, "end"), Get(arguments, "count")>>))
      [] name = "evaluate_measure" ->
            TryCall(arguments, <<"measure_id", "period_start", "period_end">>,
                Call("evaluate_measure", <<arguments["measure_id"], arguments["period_start"],
                                           arguments["period_end"], Get(arguments, "subject")>>))
      [] name = "graphql_query" ->
            TryCall(arguments, <<"query">>,
                Call("graphql", <<arguments["query"], Get(arguments, "variables")>>))
      [] OTHER -> NotHandled

(***************************************************************************)
(* tools/admin.py: handle_admin_tool.                                      *)
(***************************************************************************)
handle_admin_tool(name, arguments) ==
    IF ~admin_tools_enabled THEN NotHandled
    ELSE CASE name = "get_totals" -> Call("totals", <<>>)
           [] name = "run_compaction" ->
                Call("compact", <<Get(arguments, "column_family")>>)
           [] name = "run_reindex" ->
                Call("reindex", <<Get(arguments, "resource_type"),
                                  Get(arguments, "search_param")>>)
           [] OTHER -> NotHandled

(***************************************************************************)
(* tools/__init__.py: handle_tool_call.  The handlers are tried in order;  *)
(* the first result that is not None is returned.  `by` names the handler  *)
(* that produced the result ("" when none did).                            *)
(***************************************************************************)
handlers == <<"connection", "crud", "search", "terminology", "advanced", "admin">>

Handler(group, name, arguments) ==
    CASE group = "connection"  -> handle_connection_tool(name, arguments)
      [] group = "crud"        -> handle_crud_tool(name, arguments)
      [] group = "search"      -> handle_search_tool(name, arguments)
      [] group = "terminology" -> handle_terminology_tool(name, arguments)
      [] group = "advanced"    -> handle_advanced_tool(name, arguments)
      [] group = "admin"       -> handle_admin_tool(name, arguments)

UnknownTool(name) == Text(<<"Unknown tool: ", name>>)

RECURSIVE Route(_, _, _)
Route(i, name, arguments) ==
    IF i > Len(handlers) THEN [by |-> "", r |-> UnknownTool(name)]
    ELSE LET result == Handler(handlers[i], name, arguments)
         IN  IF result.kind # "none" THEN [by |-> handlers[i], r |-> result]
             ELSE Route(i + 1, name, arguments)

handle_tool_call(name, arguments) == Route(1, name, arguments)

\* the facade method op applied to the positional arguments a
Facade(op, a) ==
    CASE op = "read" -> read(a)
      [] op = "vread" -> vread(a)
      [] op = "search" -> search(a)
      [] op = "search_system" -> search_system(a)
      [] op = "create" -> create(a)
      [] op = "update" -> update(a)
      [] op = "delete" -> delete(a)
      [] op = "history" -> history(a)
      [] op = "transaction" -> transaction(a)
      [] op = "capabilities" -> capabilities
      [] op = "patient_everything" -> patient_everything(a)
      [] op = "evaluate_measure" -> evaluate_measure(a)
      [] op = "graphql" -> graphql(a)
      [] op = "validate_code" -> validate_code(a)
      [] op = "expand_valueset" -> expand_valueset(a)
      [] op = "lookup_code" -> lookup_code(a)
      [] op = "totals" -> totals
      [] op = "compact" -> compact(a)
      [] op = "reindex" -> reindex(a)


(***************************************************************************)
(* client.py: BlazeClient.set_base_url and BlazeClient._get_client.        *)
(***************************************************************************)
\* set_base_url with the fault of keeping the URL of the settings
set_base_url_fixed(url) == blaze_base_url

\* the new value of _base_url
set_base_url(url) == rstrip(url)

\* _get_client with the fault of no membership test: every call constructs
_get_client_no_memo(cs, hs, url) ==
    [clients |-> DictSet(cs, url, Len(hs) + 1),
     handles |-> Append(hs, [base_url |-> url, closed |-> FALSE]),
     h |-> Len(hs) + 1]

\* _get_client with the fault of evicting the other entries on a miss
_get_client_evicts(cs, hs, url) ==
    IF ~DictHas(cs, url)
    THEN [clients |-> <<[k |-> url, v |-> Len(hs) + 1]>>,
          handles |-> Append(hs, [base_url |-> url, closed |-> FALSE]),
          h |-> Len(hs) + 1]
    ELSE [clients |-> cs, handles |-> hs, h |-> cs[DictIndex(cs, url)].v]

\* _get_client() with the pool cs and the constructed handles hs, url being
\* `base_url or self._base_url`: the pool and the handles afterwards, and the
\* handle returned.  A missing entry is constructed and memoized.
_get_client(cs, hs, url) ==
    IF ~DictHas(cs, url)
    THEN [clients |-> DictSet(cs, url, Len(hs) + 1),
          handles |-> Append(hs, [base_url |-> url, closed |-> FALSE]),
          h |-> Len(hs) + 1]
    ELSE [clients |-> cs, handles |-> hs, h |-> cs[DictIndex(cs, url)].v]

\* dict_clear with the fault of leaving the entries in the pool
dict_clear_keeps(cs) == cs

\* self._clients.clear()
dict_clear(cs) == <<>>

\* await client.aclose() on handle h: idempotent
aclose(hs, h) == [hs EXCEPT ![h].closed = TRUE]

(***************************************************************************)
(* Responses of the remote server to one request: a status code, or a      *)
(* transport failure.  A 204 carries no body, so response.json() raises.   *)
(***************************************************************************)
StatusCodes == {200, 204, 404}

Responses ==
    [kind : {"status"}, code : StatusCodes] \cup {[kind |-> "transport", code |-> 0]}

NoResponse == [kind |-> "none", code |-> 0]
NoRequest == Request("", BarePath(<<>>), FALSE)

\* response.raise_for_status() does not raise
is_success(resp) == resp.kind = "status" /\ resp.code >= 200 /\ resp.code < 300

\* the facade method returns instead of raising
Returns(op, resp) == is_success(resp) /\ (op = "delete" \/ resp.code # 204)

\* delete_result with the fault of reporting every success as a deletion
delete_result_any(resp) == TRUE

\* what delete returns: response.status_code == 204
delete_result(resp) == resp.code = 204

\* the exception the facade method raises
Raised(resp) ==
    IF resp.kind = "transport" THEN <<"TransportError">>
    ELSE IF ~is_success(resp) THEN <<"HTTPStatusError", resp.code>>
    ELSE <<"JSONDecodeError">>

(***************************************************************************)
(* The texts the handlers build after the facade call.                     *)
(***************************************************************************)
\* the except clause of the handler of tool `name`
FailText(name, test_url, active, e) ==
    IF name = "test_connection"
    THEN <<"Connection failed to ", IF Truthy(test_url) THEN test_url.v ELSE active,
           "\n  Error: ", e>>
    ELSE ErrorText(e)

\* the text built from a result the facade method returned
Shape(name, a, resp, test_url, active) ==
    CASE name = "test_connection" ->
            <<"Connection successful to ", IF Truthy(test_url) THEN test_url.v ELSE active,
              "\n  Server: ", "JSON">>
      [] name = "delete_resource" -> <<"Resource deleted: ", delete_result(resp)>>
      [] name \in {"search_resources", "search_system"} ->
            <<"Found ", "JSON", " total results, returning ", "JSON", " entries.\n\n", "JSON">>
      [] name = "patient_everything" ->
            <<"Patient ", a[1].v, " has ", "JSON", " resources:\n", "JSON">>
      [] name = "get_totals" -> <<"Resource totals:\n", "JSON">>
      [] name = "run_compaction" -> <<"Compaction triggered: ", "JSON">>
      [] name = "run_reindex" -> <<"Re-index triggered: ", "JSON">>
      [] OTHER -> <<"JSON">>

(***************************************************************************)
(* tools/advanced.py: the summary of patient_everything.  A bundle is      *)
(* [has_entry, entry]: whether the JSON object has an "entry" key, and the *)
(* list under it.  An entry is [resource, resourceType]: whether it has a  *)
(* "resource" object, and that object's resourceType (None when the key is *)
(* absent).  The text is the sequence of the parts the f-strings insert.   *)
(***************************************************************************)
\* resource_type_of with the fault of a default nobody lists
resource_type_of_blank(entry) ==
    IF entry.resource /\ entry.resourceType.t # "none" THEN entry.resourceType.v ELSE ""

\* entry.get("resource", {}).get("resourceType", "Unknown")
resource_type_of(entry) ==
    IF entry.resource /\ entry.resourceType.t # "none" THEN entry.resourceType.v
    ELSE "Unknown"

\* result.get("entry", [])
entries_of(result) == IF result.has_entry THEN result.entry ELSE <<>>

\* resource_types[rt] after the loop (0 when rt is no key)
type_count(entries, rt) == Len(SelectSeq(entries, LAMBDA e : resource_type_of(e) = rt))

\* the resource types of the inputs as sorted() orders them (by code point)
SortedTypes == <<"Observation", "Patient", "Unknown">>

RECURSIVE summary_lines(_, _)
\* for rt, count in sorted(resource_types.items()): f"  - {rt}: {count}\n"
summary_lines(entries, i) ==
    IF i > Len(SortedTypes) THEN <<>>
    ELSE LET rt == SortedTypes[i]
         IN  (IF type_count(entries, rt) > 0
              THEN <<"  - ", rt, ": ", type_count(entries, rt), "\n">>
              ELSE <<>>) \o summary_lines(entries, i + 1)

\* the text patient_everything returns for patient_id and the bundle result
summary(patient_id, result) ==
    <<"Patient ", patient_id, " has ", Len(entries_of(result)), " resources:\n">>
        \o summary_lines(entries_of(result), 1) \o <<"\n", "JSON">>

(***************************************************************************)
(* Tool calls.  A session has one tool call at a time: idle, then awaiting *)
(* the response of its facade call (await), then done with the result in   *)
(* hand until the protocol layer has sent the reply.                       *)
(*   kind, text  the outcome: "text" with the text returned, or "raise"    *)
(*               with the exception that escaped                           *)
(*   by          the group handler that produced the outcome               *)
(*   old_url     the active base URL when the call started                 *)
(*   end_url     the active base URL when the call returned                *)
(*   h, req      the handle the request went to, and the request           *)
(*   nreq        the number of requests the call handed to a transport     *)
(*   set_url     bookkeeping of a test_connection with an override: the    *)
(*               URL that the last set_blaze_url to succeed while the      *)
(*               probe was in flight made active (<<>> when there was      *)
(*               none)                                                     *)
(***************************************************************************)
\* two sessions: enough for one call to overlap another
Tasks == {1, 2}

NoArguments == [key \in {} |-> NoneV]

Idle ==
    [pc |-> "idle", name |-> "", arguments |-> NoArguments, by |-> "", op |-> "",
     a |-> <<>>, h |-> 0, req |-> NoRequest, old_url |-> <<>>, test_url |-> NoneV,
     kind |-> "", text |-> <<>>, nreq |-> 0, end_url |-> <<>>, resp |-> NoResponse,
     set_url |-> <<>>]

\* call_tool(name, arguments) from its start to its first suspension or, when
\* it does not suspend, to its return
ToolCall(t, name, arguments) ==
    /\ tasks[t].pc = "idle"
    /\ LET d == handle_tool_call(name, arguments)
           r == d.r
           started == [Idle EXCEPT !.name = name, !.arguments = arguments, !.by = d.by,
                                   !.old_url = base_url]
       IN  CASE r.kind \in {"text", "raise"} ->
                  /\ tasks' = [tasks EXCEPT ![t] =
                        [started EXCEPT !.pc = "done", !.kind = r.kind, !.text = r.text,
                                        !.end_url = base_url]]
                  /\ UNCHANGED <<base_url, clients, handles>>
             [] r.kind = "seturl" ->
                  /\ base_url' = set_base_url(r.a[1])
                  /\ tasks' = [u \in Tasks |->
                        IF u = t
                        THEN [started EXCEPT !.pc = "done", !.kind = "text",
                                        !.text = <<"Blaze URL updated:\n  Previous: ",
                                                   base_url, "\n  Current:  ", r.a[1]>>,
                                        !.end_url = base_url']
                        ELSE IF tasks[u].pc = "await" /\ Truthy(tasks[u].test_url)
                        THEN [tasks[u] EXCEPT !.set_url = base_url']
                        ELSE tasks[u]]
                  /\ UNCHANGED <<clients, handles>>
             [] r.kind \in {"probe", "call"} ->
                  LET test_url == IF r.kind = "probe" THEN r.a[1] ELSE NoneV
                      \* if test_url: old_url = client.base_url; set_base_url(test_url)
                      active == IF Truthy(test_url) THEN set_base_url(test_url.v)
                                ELSE base_url
                      g == _get_client(clients, handles, active)
                      sent == [started EXCEPT !.op = r.op, !.a = r.a, !.h = g.h,
                                              !.req = Facade(r.op, r.a),
                                              !.test_url = test_url]
                  IN  /\ Len(g.handles) <= MaxHandles
                      /\ base_url' = active
                      /\ clients' = g.clients
                      /\ handles' = g.handles
                      /\ tasks' = [tasks EXCEPT ![t] =
                            IF g.handles[g.h].closed
                            THEN \* the handle refuses to send: RuntimeError
                                 [sent EXCEPT !.pc = "done", !.kind = "text",
                                     !.text = FailText(name, test_url, active,
                                                       <<"RuntimeError", "closed">>),
                                     !.end_url = active]
                            ELSE [sent EXCEPT !.pc = "await", !.nreq = 1]]
    /\ UNCHANGED <<admin_tools_enabled, server, epoch, closer>>

\* on_failure with the fault of sending the request again
on_failure_retry(resp) == "await"

\* where a call is after its facade method raised: the except clause of the
\* handler returns a text, nothing loops back to the request
on_failure(resp) == "done"

\* bound_client with the fault of looking the active URL up again
bound_client_current(tk) ==
    IF DictHas(clients, base_url) THEN clients[DictIndex(clients, base_url)].v ELSE tk.h

\* the local `client` of a facade method, bound by `client = await
\* self._get_client()` before the request: the handle the response comes from
bound_client(tk) == tk.h

\* the response to the request of task t arrives: the rest of the call
Complete(t, resp) ==
    LET tk == tasks[t] IN
    /\ tk.pc = "await"
    \* the transport answers with a status only over http and https
    /\ resp.kind = "status" => has_scheme(handles[bound_client(tk)].base_url)
    /\ IF Returns(tk.op, resp)
       THEN /\ base_url' = IF tk.name = "test_connection" /\ Truthy(tk.test_url)
                           THEN set_base_url(tk.old_url)
                           ELSE base_url
            /\ tasks' = [tasks EXCEPT ![t] =
                  [tk EXCEPT !.pc = "done", !.kind = "text", !.resp = resp,
                             !.h = bound_client(tk),
                             !.text = Shape(tk.name, tk.a, resp, tk.test_url, base_url'),
                             !.end_url = base_url']]
       ELSE /\ base_url' = base_url
            /\ tasks' = [tasks EXCEPT ![t] =
                  [tk EXCEPT !.pc = on_failure(resp), !.kind = "text", !.resp = resp,
                             !.h = bound_client(tk),
                             !.text = FailText(tk.name, tk.test_url, base_url, Raised(resp)),
                             !.end_url = base_url]]
    /\ UNCHANGED <<admin_tools_enabled, server, clients, handles, epoch, closer>>

\* the protocol layer has sent the reply of task t; the session is free again
Reply(t) ==
    /\ tasks[t].pc = "done"
    /\ tasks' = [tasks EXCEPT ![t] = Idle]
    /\ UNCHANGED <<admin_tools_enabled, server, base_url, clients, handles, epoch, closer>>

(***************************************************************************)
(* client.py: BlazeClient.close.  The loop iterates the live dict: the     *)
(* iterator remembers the size it started with (di_used) and its position  *)
(* (di_pos), and raises RuntimeError at the next step if the size changed. *)
(* Each aclose() marks the handle closed and may then suspend.  acloses     *)
(* counts the aclose() calls of the current or last close().               *)
(***************************************************************************)
\* not running: how the last call ended ("none" before any) and how many
\* aclose() it awaited
CloserIdle(result, acloses) ==
    [pc |-> "idle", di_used |-> 0, di_pos |-> 0, result |-> result, acloses |-> acloses]

\* close() is called: up to the first `await client.aclose()`, or to the
\* return when the pool is empty
CloseStart ==
    /\ closer.pc = "idle"
    /\ IF Len(clients) = 0
       THEN /\ clients' = dict_clear(clients)
            /\ epoch' = Len(handles)
            /\ closer' = CloserIdle("returned", 0)
            /\ UNCHANGED handles
       ELSE /\ handles' = aclose(handles, clients[1].v)
            /\ closer' = [pc |-> "iter", di_used |-> Len(clients), di_pos |-> 1,
                          result |-> "none", acloses |-> 1]
            /\ UNCHANGED <<clients, epoch>>
    /\ UNCHANGED <<admin_tools_enabled, server, base_url, tasks>>

\* close() resumes after an aclose(): the next iteration, or the clear
CloseStep ==
    /\ closer.pc = "iter"
    /\ IF closer.di_used # Len(clients)
       THEN \* dictionary changed size during iteration
            /\ closer' = CloserIdle("raised", closer.acloses)
            /\ UNCHANGED <<clients, handles, epoch>>
       ELSE IF closer.di_pos < Len(clients)
       THEN /\ handles' = aclose(handles, clients[closer.di_pos + 1].v)
            /\ closer' = [closer EXCEPT !.di_pos = closer.di_pos + 1,
                                         !.acloses = closer.acloses + 1]
            /\ UNCHANGED <<clients, epoch>>
       ELSE /\ clients' = dict_clear(clients)
            /\ epoch' = Len(handles)
            /\ closer' = CloserIdle("returned", closer.acloses)
            /\ UNCHANGED handles
    /\ UNCHANGED <<admin_tools_enabled, server, base_url, tasks>>

(***************************************************************************)
(* server.py: run_stdio_server and run_sse_server.  Both await the inbound *)
(* transport inside `try:` and `await client.close()` in `finally:`.  The  *)
(* protocol server runs its handlers in a task group, which has joined or  *)
(* cancelled every tool call by the time the await of the transport ends:  *)
(* a call still in flight then is cancelled at its await.                  *)
(***************************************************************************)
Modes == {"stdio", "sse"}

Serving(mode) == [mode |-> mode, phase |-> "serving", how |-> "none"]

\* finally_closes with the fault of an `else:` clause in place of `finally:`
finally_closes_on_return(how) == how = "returned"

\* try: ... finally: await client.close() -- the clause runs after a return
\* and after an exception
finally_closes(how) == TRUE

\* the await of the inbound transport ends: it returns or it raises
Terminate(how) ==
    /\ server.phase = "serving"
    /\ server' = [server EXCEPT !.phase = "closing", !.how = how]
    /\ tasks' = [t \in Tasks |-> Idle]
    /\ UNCHANGED <<admin_tools_enabled, base_url, clients, handles, epoch, closer>>

\* the finally clause calls client.close()
FinallyStart ==
    /\ server.phase = "closing"
    /\ finally_closes(server.how)
    /\ closer.result = "none"
    /\ CloseStart

\* client.close() resumes after an aclose()
FinallyStep == server.phase = "closing" /\ CloseStep

\* the coroutine ends: the process exits
Exit ==
    /\ server.phase = "closing"
    /\ closer.pc = "idle"
    /\ finally_closes(server.how) => closer.result # "none"
    /\ server' = [server EXCEPT !.phase = "exited"]
    /\ UNCHANGED <<admin_tools_enabled, base_url, clients, handles, epoch, tasks, closer>>

(***************************************************************************)
(* Inputs.                                                                 *)
(***************************************************************************)
\* "http://a", "http://a/", "https://b/", "ftp://c", "http://", "/"
UrlA == <<"h","t","t","p",":","/","/","a">>
UrlASlash == <<"h","t","t","p",":","/","/","a","/">>
UrlBSlash == <<"h","t","t","p","s",":","/","/","b","/">>
UrlFtp == <<"f","t","p",":","/","/","c">>
UrlSchemeOnly == <<"h","t","t","p",":","/","/">>
UrlSlash == <<"/">>

\* values of the `url` entry: strings, and a number
UrlValues ==
    {StrV(u) : u \in {UrlA, UrlASlash, UrlFtp, UrlSchemeOnly, UrlSlash}} \cup {IntV(5)}

\* values of the `count` entry: null, a string, and integers around the clamp
CountValues == {NoneV, TokV("abc"), IntV(0), IntV(10), IntV(500)}

\* values of the `params` entry
ParamsValues ==
    {DictV(<<[k |-> "family", v |-> TokV("Test")]>>),
     DictV(<<[k |-> "_count", v |-> IntV(500)]>>)}

\* a mapping holding every required field of every tool
Required ==
    [resource_type |-> TokV("Patient"), resource_id |-> TokV("123"),
     version_id |-> TokV("1"), resource |-> TokV("{resource}"),
     bundle |-> TokV("{bundle}"), system |-> TokV("http://loinc.org"),
     code |-> TokV("1234-5"), patient_id |-> TokV("123"),
     measure_id |-> TokV("m1"), period_start |-> TokV("2020"),
     period_end |-> TokV("2021"), query |-> TokV("{ PatientList { id } }")]

Arguments ==
    {NoArguments, Required}
        \cup {[url |-> u] : u \in UrlValues}
        \cup {Required @@ [count |-> c] : c \in CountValues}
        \cup {Required @@ [params |-> p] : p \in ParamsValues}
        \cup {Required @@ [count |-> c, params |-> p] :
                 c \in {IntV(0), IntV(10)}, p \in ParamsValues}

AdminNames == {"get_totals", "run_compaction", "run_reindex"}

CatalogNames ==
    Range(CONNECTION_TOOLS) \cup Range(CRUD_TOOLS) \cup Range(SEARCH_TOOLS)
        \cup Range(TERMINOLOGY_TOOLS) \cup Range(ADVANCED_TOOLS) \cup AdminNames

\* every catalog name and one name no group knows
ToolNames == CatalogNames \cup {"no_such_tool"}

\* the inputs of the concurrent specification: <<name, arguments>>
ConcurrentCalls ==
    {<<"set_blaze_url", [url |-> StrV(UrlA)]>>,
     <<"set_blaze_url", [url |-> StrV(UrlBSlash)]>>,
     <<"get_blaze_url", NoArguments>>,
     <<"test_connection", NoArguments>>,
     <<"test_connection", [url |-> StrV(UrlBSlash)]>>,
     <<"read_resource", Required>>}

(***************************************************************************)
(* Specifications.                                                         *)
(***************************************************************************)
Start ==
    /\ base_url = blaze_base_url
    /\ clients = <<>>
    /\ handles = <<>>
    /\ epoch = 0
    /\ tasks = [t \in Tasks |-> Idle]
    /\ closer = CloserIdle("none", 0)

\* the settings as config.py defaults them
Init == admin_tools_enabled = TRUE /\ server = Serving("stdio") /\ Start

\* no finished call is waiting for its reply to be sent
NoneDone == \A t \in Tasks : tasks[t].pc # "done"

\* Concurrent sessions and a closer, over a small set of inputs.  A finished
\* call holds only its own result, which nothing else reads, so its reply is
\* sent before any other coroutine runs: no interleaving of the client's state
\* is lost by that.
Next ==
    \/ \E t \in Tasks : Reply(t)
    \/ \E t \in Tasks, call \in ConcurrentCalls : NoneDone /\ ToolCall(t, call[1], call[2])
    \/ \E t \in Tasks, resp \in Responses : NoneDone /\ Complete(t, resp)
    \/ NoneDone /\ CloseStart
    \/ NoneDone /\ CloseStep

Spec == Init /\ [][Next]_vars

\* one session, every tool name and every argument mapping, either value of
\* the admin-tools flag
DispatchInit == admin_tools_enabled \in BOOLEAN /\ server = Serving("stdio") /\ Start

DispatchNext ==
    \/ \E name \in ToolNames, arguments \in Arguments : ToolCall(1, name, arguments)
    \/ \E resp \in Responses : Complete(1, resp)
    \/ Reply(1)

SpecDispatch == DispatchInit /\ [][DispatchNext]_vars

\* BlazeClient._build_url as a function: the path and the parameter mapping
\* are drawn at the start, the one step builds the URL
BuildKeys == <<"family", "date", "_tag", "_id">>

BuildValues ==
    {NoneV, TokV("Test"), IntV(0), ListV(<<>>), ListV(<<TokV("a"), TokV("b")>>)}

\* None, and every mapping of the first n keys to the values
BuildParams ==
    {NoneV} \cup
        {DictV([i \in 1..n |-> [k |-> BuildKeys[i], v |-> f[i]]]) :
            n \in 0..MaxParams, f \in [1..MaxParams -> BuildValues]}

BuildCall(params) ==
    [Idle EXCEPT !.name = "_build_url", !.a = <<<<"/", "Patient">>, params>>]

BuildInit ==
    /\ admin_tools_enabled = TRUE
    /\ server = Serving("stdio")
    /\ base_url = blaze_base_url
    /\ clients = <<>>
    /\ handles = <<>>
    /\ epoch = 0
    /\ closer = CloserIdle("none", 0)
    /\ \E params \in BuildParams :
          tasks = [t \in Tasks |-> IF t = 1 THEN BuildCall(params) ELSE Idle]

\* self._build_url(path, params)
BuildUrl ==
    /\ tasks[1].pc = "idle"
    /\ tasks[1].name = "_build_url"
    /\ tasks' = [tasks EXCEPT ![1] =
          [@ EXCEPT !.pc = "done", !.kind = "text",
                    !.req = Request("GET", _build_url(tasks[1].a[1], tasks[1].a[2]), FALSE)]]
    /\ UNCHANGED <<admin_tools_enabled, server, base_url, clients, handles, epoch, closer>>

BuildNext == BuildUrl

SpecBuild == BuildInit /\ [][BuildNext]_vars

\* The facade methods whose query parameters are all optional, as functions
\* from their arguments to the request: the arguments are drawn at the
\* start, the one step builds the request.
OptionalText == {NoneV, StrV(<<>>), TokV("x")}

OptionalCount == {NoneV, IntV(0), IntV(10)}

OptionalCalls ==
    {<<"patient_everything", <<TokV("123"), start, end, count>>>> :
        start \in OptionalText, end \in OptionalText, count \in OptionalCount}
    \cup {<<"expand_valueset", <<valueset_id, url, filter_text, count>>>> :
        valueset_id \in {NoneV, TokV("vs1")}, url \in OptionalText,
        filter_text \in OptionalText, count \in OptionalCount}
    \cup {<<"compact", <<column_family>>>> : column_family \in OptionalText}
    \cup {<<"reindex", <<resource_type, search_param>>>> :
        resource_type \in OptionalText, search_param \in OptionalText}
    \cup {<<"history", <<TokV("Patient"), TokV("123"), count>>>> : count \in OptionalCount}

OptionalInit ==
    /\ admin_tools_enabled = TRUE
    /\ server = Serving("stdio")
    /\ base_url = blaze_base_url
    /\ clients = <<>>
    /\ handles = <<>>
    /\ epoch = 0
    /\ closer = CloserIdle("none", 0)
    /\ \E call \in OptionalCalls :
          tasks = [t \in Tasks |->
                      IF t = 1 THEN [Idle EXCEPT !.name = "facade", !.op = call[1],
                                                 !.a = call[2]]
                      ELSE Idle]

\* the facade method builds its request
OptionalUrl ==
    /\ tasks[1].pc = "idle"
    /\ tasks[1].name = "facade"
    /\ tasks' = [tasks EXCEPT ![1] =
          [@ EXCEPT !.pc = "done", !.kind = "text",
                    !.req = Facade(tasks[1].op, tasks[1].a)]]
    /\ UNCHANGED <<admin_tools_enabled, server, base_url, clients, handles, epoch, closer>>

OptionalNext == OptionalUrl

SpecOptional == OptionalInit /\ [][OptionalNext]_vars

\* The summary of patient_everything as a function of the bundle: the bundle
\* is drawn at the start, the one step builds the text.
EntryValues ==
    {[resource |-> TRUE, resourceType |-> TokV("Patient")],
     [resource |-> TRUE, resourceType |-> TokV("Observation")],
     [resource |-> TRUE, resourceType |-> NoneV],
     [resource |-> FALSE, resourceType |-> NoneV]}

\* bundles without an "entry" key, and with every list of entries
Bundles ==
    {[has_entry |-> FALSE, entry |-> <<>>]} \cup
        {[has_entry |-> TRUE, entry |-> [i \in 1..n |-> f[i]]] :
            n \in 0..MaxEntries, f \in [1..MaxEntries -> EntryValues]}

SummaryInit ==
    /\ admin_tools_enabled = TRUE
    /\ server = Serving("stdio")
    /\ base_url = blaze_base_url
    /\ clients = <<>>
    /\ handles = <<>>
    /\ epoch = 0
    /\ closer = CloserIdle("none", 0)
    /\ \E result \in Bundles :
          tasks = [t \in Tasks |->
                      IF t = 1 THEN [Idle EXCEPT !.name = "summary",
                                                 !.a = <<TokV("123"), result>>]
                      ELSE Idle]

\* handle_advanced_tool summarizes the bundle patient_everything returned
Summarize ==
    /\ tasks[1].pc = "idle"
    /\ tasks[1].name = "summary"
    /\ tasks' = [tasks EXCEPT ![1] =
          [@ EXCEPT !.pc = "done", !.kind = "text",
                    !.text = summary(tasks[1].a[1].v, tasks[1].a[2])]]
    /\ UNCHANGED <<admin_tools_enabled, server, base_url, clients, handles, epoch, closer>>

SummaryNext == Summarize

SpecSummary == SummaryInit /\ [][SummaryNext]_vars

\* the life of the process in either mode: tool calls of two sessions while
\* the inbound transport is up, then the finally clause, then the exit
ServerInit == admin_tools_enabled = TRUE /\ server \in {Serving(m) : m \in Modes} /\ Start

ServerNext ==
    \/ \E t \in Tasks : Reply(t)
    \/ \E t \in Tasks, call \in ConcurrentCalls :
          server.phase = "serving" /\ NoneDone /\ ToolCall(t, call[1], call[2])
    \/ \E t \in Tasks, resp \in Responses : NoneDone /\ Complete(t, resp)
    \/ \E how \in {"returned", "raised"} : NoneDone /\ Terminate(how)
    \/ FinallyStart
    \/ FinallyStep
    \/ Exit

SpecServer == ServerInit /\ [][ServerNext]_vars

(***************************************************************************)
(* Properties.                                                             *)
(***************************************************************************)
Done(t) == tasks[t].pc = "done"

\* the raw value v starts with http:// or https://
StartsWithHttp(v) ==
    \/ Len(v) >= 7 /\ SubSeq(v, 1, 7) = <<"h","t","t","p",":","/","/">>
    \/ Len(v) >= 8 /\ SubSeq(v, 1, 8) = <<"h","t","t","p","s",":","/","/">>

\* the call of task t handed a request to a transport and it failed: a
\* transport error or a status outside 2xx
OutboundFailed(t) ==
    /\ tasks[t].nreq = 1
    /\ \/ tasks[t].resp.kind = "transport"
       \/ tasks[t].resp.kind = "status"
            /\ (tasks[t].resp.code < 200 \/ tasks[t].resp.code >= 300)

\* C1: when test_connection called with an override URL has returned, the
\* active base URL is the one that was active before the call, whether the
\* probe succeeded or failed.
C1_OverrideRestored ==
    \A t \in Tasks :
        (Done(t) /\ tasks[t].name = "test_connection" /\ Truthy(tasks[t].test_url))
            => tasks[t].end_url = tasks[t].old_url

\* C2: whatever the tool name and the argument mapping, handle_tool_call
\* returns text content: no exception escapes to the protocol layer.
C2_NoExceptionEscapes == \A t \in Tasks : Done(t) => tasks[t].kind = "text"

\* C3: a set_blaze_url call whose value does not start with http:// or
\* https:// leaves the active base URL unchanged and returns an in-band error
\* text, and hands no request to any transport handle.
C3_BadSchemeRejected ==
    \A t \in Tasks :
        (/\ Done(t)
         /\ tasks[t].name = "set_blaze_url"
         /\ "url" \in DOMAIN tasks[t].arguments
         /\ tasks[t].arguments["url"].t = "str"
         /\ ~StartsWithHttp(tasks[t].arguments["url"].v))
            => /\ tasks[t].end_url = tasks[t].old_url
               /\ tasks[t].kind = "text"
               /\ tasks[t].text[1] = "Error: "
               /\ tasks[t].nreq = 0
               /\ tasks[t].h = 0

\* a set_blaze_url call with the value ftp://c has been rejected
C3_Witness ==
    \E t \in Tasks :
        /\ Done(t)
        /\ tasks[t].name = "set_blaze_url"
        /\ "url" \in DOMAIN tasks[t].arguments
        /\ tasks[t].arguments["url"] = StrV(UrlFtp)
        /\ tasks[t].text[1] = "Error: "
        /\ base_url = tasks[t].old_url

C5_UnknownToolText ==
    \A t \in Tasks :
        (Done(t) /\ tasks[t].name \notin CatalogNames)
            => /\ tasks[t].kind = "text"
               /\ Len(tasks[t].text) = 2
               /\ tasks[t].text[1] = "Unknown tool: "
               /\ tasks[t].text[2] = tasks[t].name

\* the group that lists the tool name in its catalog ("" when none does)
Owner(name) ==
    CASE name \in Range(CONNECTION_TOOLS)  -> "connection"
      [] name \in Range(CRUD_TOOLS)        -> "crud"
      [] name \in Range(SEARCH_TOOLS)      -> "search"
      [] name \in Range(TERMINOLOGY_TOOLS) -> "terminology"
      [] name \in Range(ADVANCED_TOOLS)    -> "advanced"
      [] name \in Range(get_admin_tools)   -> "admin"
      [] OTHER                             -> ""

\* C6: a group handler returns None for every tool name outside its group,
\* whatever the arguments, so the result of dispatching a catalog tool is
\* produced by the handler of the group that owns it.
C6_OwnerAnswers ==
    \A t \in Tasks :
        (Done(t) /\ tasks[t].name \in Range(get_all_tools))
            => tasks[t].by = Owner(tasks[t].name)

\* C7: with the admin-tools flag disabled, get_all_tools holds none of
\* get_totals, run_compaction, run_reindex, and dispatching any of the three
\* makes no outbound request and returns the unknown-tool text.
C7_AdminDisabled ==
    ~admin_tools_enabled =>
        /\ Range(get_all_tools) \cap AdminNames = {}
        /\ \A t \in Tasks :
              (Done(t) /\ tasks[t].name \in AdminNames)
                  => /\ tasks[t].nreq = 0
                     /\ tasks[t].kind = "text"
                     /\ tasks[t].text[1] = "Unknown tool: "

\* the value the query string of request req carries for key, as a set
QueryValues(req, key) ==
    {req.url.query[i].v : i \in {j \in 1..Len(req.url.query) : req.url.query[j].k = key}}

\* C8: for search_resources and search_system, the _count of the outbound
\* query string is min(c, max_page_size) for every requested integer count c,
\* and default_page_size when no count is supplied.
C8_CountSent ==
    \A t \in Tasks :
        (tasks[t].nreq = 1 /\ tasks[t].name \in {"search_resources", "search_system"})
            => LET arguments == tasks[t].arguments
                   expected == IF "count" \in DOMAIN arguments
                               THEN IF arguments["count"].v <= max_page_size
                                    THEN arguments["count"].v ELSE max_page_size
                               ELSE default_page_size
               IN  QueryValues(tasks[t].req, "_count") = {IntV(expected)}

\* the handles constructed since the pool was last cleared
SinceClear == (epoch + 1)..Len(handles)

\* task t starts a facade call in this step
Sends(t) == tasks[t].pc = "idle" /\ tasks'[t].h # 0

\* C9: between two pool-wide closes at most one transport handle is created
\* per distinct base-URL string, also when several tool calls for a URL that
\* has no handle yet run concurrently; a handle is created only by the first
\* facade call that uses its URL, and set_blaze_url creates none.
C9_OneHandlePerUrl ==
    /\ [](\A h1, h2 \in SinceClear :
              h1 # h2 => handles[h1].base_url # handles[h2].base_url)
    /\ [][Len(handles') > Len(handles) =>
              /\ Len(handles') = Len(handles) + 1
              /\ ~DictHas(clients, handles'[Len(handles')].base_url)
              /\ \E t \in Tasks : Sends(t) /\ tasks'[t].h = Len(handles')]_vars
    /\ [][\A t \in Tasks :
              (tasks[t].pc = "idle" /\ tasks'[t].name = "set_blaze_url")
                  => handles' = handles /\ clients' = clients]_vars

\* two tool calls are in flight on the one handle of a URL that had none
\* when the first of them started, after set_blaze_url changed the URL
C9_Witness ==
    /\ tasks[1].pc = "await" /\ tasks[2].pc = "await"
    /\ tasks[1].h = tasks[2].h
    /\ tasks[1].h \in SinceClear
    /\ handles[tasks[1].h].base_url = UrlA
    /\ Len(handles) = 1

\* close() returns in this step
CloseReturns == closer.pc = "iter" /\ closer'.pc = "idle" /\ closer'.result = "returned"

\* C10: when close() returns, every handle that was in the pool has been
\* closed and the pool is empty; the next request to a URL creates a fresh
\* handle for it instead of reusing a closed one.
C10_CloseEmptiesPool ==
    /\ [](\A h \in 1..epoch : handles[h].closed)
    /\ [][CloseReturns =>
              /\ clients' = <<>>
              /\ \A i \in 1..Len(clients) : handles'[clients[i].v].closed]_vars
    /\ [][\A t \in Tasks :
              (Sends(t) /\ clients = <<>>)
                  => /\ tasks'[t].h = Len(handles) + 1
                     /\ ~handles'[tasks'[t].h].closed
                     /\ clients' = <<[k |-> base_url', v |-> tasks'[t].h]>>]_vars

\* close() has returned after closing two handles, and a request made after
\* it is in flight on a third, open handle for a URL that had a handle before
C10_Witness ==
    /\ closer.pc = "idle" /\ closer.result = "returned"
    /\ epoch = 2
    /\ \E t \in Tasks :
          /\ tasks[t].pc = "await"
          /\ tasks[t].h = 3
          /\ ~handles[3].closed
          /\ \E h \in 1..epoch : handles[h].base_url = handles[3].base_url

\* close() is called in this step
CloseCalled == closer.pc = "idle" /\ closer' # closer

\* C11: close() is idempotent: called on a pool that never had a handle, or
\* again after a close() that returned with no request made since, it returns
\* without an exception, awaits no aclose() (no handle is closed a second
\* time) and leaves the pool empty.
C11_CloseIdempotent ==
    [][(CloseCalled /\ epoch = Len(handles))
           => /\ closer'.pc = "idle"
              /\ closer'.result = "returned"
              /\ closer'.acloses = 0
              /\ handles' = handles
              /\ clients' = <<>>]_vars

\* a second close() has returned without closing anything, after a first one
\* closed two handles
C11_Witness ==
    /\ closer.pc = "idle" /\ closer.result = "returned" /\ closer.acloses = 0
    /\ epoch = 2 /\ Len(handles) = 2
    /\ \A h \in 1..2 : handles[h].closed
    /\ clients = <<>>

\* C12: no operation other than the pool-wide close removes or closes a pool
\* entry: a step of a tool call (set_blaze_url, a request that fails, a
\* test_connection with an override) leaves every entry and every handle as
\* it was, so every URL used since the last close still maps to the handle
\* made for it, open unless a close() has started on it, and a call for a URL
\* that has an entry reuses that handle.
C12_NoEviction ==
    /\ [][tasks' # tasks =>
              /\ Len(clients') >= Len(clients)
              /\ \A i \in 1..Len(clients) : clients'[i] = clients[i]
              /\ \A h \in 1..Len(handles) : handles'[h] = handles[h]]_vars
    /\ [][\A t \in Tasks :
              (Sends(t) /\ \E i \in 1..Len(clients) : clients[i].k = base_url')
                  => /\ handles' = handles
                     /\ \E i \in 1..Len(clients) :
                           clients[i].k = base_url' /\ clients[i].v = tasks'[t].h]_vars
    /\ [](\A h \in SinceClear :
              \E i \in 1..Len(clients) :
                  clients[i].k = handles[h].base_url /\ clients[i].v = h)
    /\ []((closer.pc = "idle" /\ closer.result # "raised")
              => \A h \in SinceClear : ~handles[h].closed)

\* with no close() so far and two URLs in the pool, both sessions have a
\* request in flight on the handle of the first URL: the later of the two
\* calls started after the second URL was used
C12_Witness ==
    /\ closer.pc = "idle" /\ closer.result = "none"
    /\ Len(clients) = 2 /\ Len(handles) = 2
    /\ tasks[1].pc = "await" /\ tasks[2].pc = "await"
    /\ tasks[1].h = 1 /\ tasks[2].h = 1
    /\ ~handles[1].closed /\ ~handles[2].closed

\* u is v without its trailing slashes
Stripped(u, v) ==
    /\ Len(u) <= Len(v)
    /\ SubSeq(v, 1, Len(u)) = u
    /\ \A i \in (Len(u) + 1)..Len(v) : v[i] = "/"
    /\ Len(u) > 0 => u[Len(u)] # "/"

\* C13: every facade call is sent through the handle of the base URL that is
\* active when the call starts: a set_blaze_url that returns successfully
\* makes its URL the active one, every request started afterwards goes to the
\* handle of the active URL (the override, for a test_connection with one),
\* and the active URL changes only by set_blaze_url or by a test_connection
\* with an override.
C13_SentToActiveUrl ==
    /\ [][\A t \in Tasks :
              (/\ tasks[t].pc = "idle"
               /\ tasks'[t].name = "set_blaze_url"
               /\ tasks'[t].kind = "text"
               /\ tasks'[t].text[1] # "Error: ")
                  => Stripped(base_url', tasks'[t].arguments["url"].v)]_vars
    /\ [][\A t \in Tasks :
              Sends(t) =>
                  handles'[tasks'[t].h].base_url =
                      IF Truthy(tasks'[t].test_url) THEN tasks'[t].test_url.v
                      ELSE base_url]_vars
    /\ [][base_url' # base_url =>
              \E t \in Tasks :
                  /\ tasks'[t] # tasks[t]
                  /\ \/ tasks'[t].name = "set_blaze_url"
                     \/ tasks[t].name = "test_connection" /\ Truthy(tasks[t].test_url)
                     \/ tasks'[t].name = "test_connection" /\ Truthy(tasks'[t].test_url)]_vars

\* after requests to the URL of the settings, set_blaze_url made http://a the
\* active URL, and a read_resource started since is in flight on its handle
C13_Witness ==
    \E t \in Tasks :
        /\ tasks[t].pc = "await"
        /\ tasks[t].name = "read_resource"
        /\ tasks[t].old_url = UrlA
        /\ base_url = UrlA
        /\ handles[tasks[t].h].base_url = UrlA
        /\ tasks[t].h > 1
        /\ handles[1].base_url = blaze_base_url

\* C14: a request that is in flight when a concurrent set_blaze_url changes
\* the active URL completes against the handle of the previous URL: the
\* change leaves the call as it is, the call keeps its handle and its request
\* until a response ends it, and the handle keeps its URL.
C14_InFlightKeepsHandle ==
    /\ [][\A t \in Tasks :
              tasks[t].pc = "await" =>
                  /\ tasks'[t].pc \in {"await", "done"}
                  /\ tasks'[t].h = tasks[t].h
                  /\ tasks'[t].req = tasks[t].req
                  /\ handles'[tasks[t].h].base_url = handles[tasks[t].h].base_url
                  /\ tasks'[t].pc = "done" => tasks'[t].resp \in Responses]_vars
    /\ [][\A t, u \in Tasks :
              (/\ tasks[t].pc = "await"
               /\ u # t
               /\ tasks[u].pc = "idle"
               /\ tasks'[u].name = "set_blaze_url")
                  => [tasks'[t] EXCEPT !.set_url = tasks[t].set_url] = tasks[t]]_vars

\* a read_resource started under the URL of the settings has returned the
\* resource from that URL's handle after set_blaze_url made http://a active
C14_Witness ==
    \E t \in Tasks :
        /\ Done(t)
        /\ tasks[t].name = "read_resource"
        /\ tasks[t].old_url = blaze_base_url
        /\ base_url = UrlA
        /\ handles[tasks[t].h].base_url = blaze_base_url
        /\ tasks[t].resp = [kind |-> "status", code |-> 200]
        /\ tasks[t].text[1] = "JSON"

\* C15: test_connection with an override URL tests that URL without changing
\* the default: starting the call leaves the active base URL as it was, so
\* that no concurrent tool call or get_blaze_url can observe the override as
\* the active URL or send its request there.
C15_OverrideNotActive ==
    [][\A t \in Tasks :
           (/\ tasks[t].pc = "idle"
            /\ tasks'[t].name = "test_connection"
            /\ Truthy(tasks'[t].test_url))
               => base_url' = base_url]_vars

\* C16: delete returns true iff the response status is exactly 204 and false
\* for every other 2xx status; a status outside 2xx raises instead of
\* returning, which delete_resource reports as an error text.
C16_DeleteResult ==
    \A t \in Tasks :
        (/\ Done(t)
         /\ tasks[t].name = "delete_resource"
         /\ tasks[t].nreq = 1
         /\ tasks[t].resp.kind = "status")
            => IF tasks[t].resp.code >= 200 /\ tasks[t].resp.code < 300
               THEN /\ tasks[t].text[1] = "Resource deleted: "
                    /\ tasks[t].text[2] = (tasks[t].resp.code = 204)
               ELSE tasks[t].text[1] = "Error: "

\* a delete_resource answered with 204 has returned `Resource deleted: True`
C16_Witness ==
    \E t \in Tasks :
        /\ Done(t)
        /\ tasks[t].name = "delete_resource"
        /\ tasks[t].req.method = "DELETE"
        /\ tasks[t].resp = [kind |-> "status", code |-> 204]
        /\ tasks[t].text = <<"Resource deleted: ", TRUE>>

\* C17: every tool invocation issues at most one outbound HTTP request, also
\* when that request fails: the response to the request, whatever it is, ends
\* the call, and no further request or handle is made for it.
C17_NoRetry ==
    /\ [](\A t \in Tasks : tasks[t].nreq <= 1)
    /\ [][\A t \in Tasks :
              (tasks[t].pc = "await" /\ tasks'[t] # tasks[t])
                  => /\ tasks'[t].pc = "done"
                     /\ tasks'[t].nreq = 1
                     /\ tasks'[t].req = tasks[t].req
                     /\ handles' = handles]_vars

\* the one request of a test_connection failed in the transport and the call
\* has returned
C17_Witness ==
    \E t \in Tasks :
        /\ Done(t)
        /\ tasks[t].name = "test_connection"
        /\ tasks[t].resp.kind = "transport"
        /\ tasks[t].nreq = 1
        /\ tasks[t].text[1] = "Connection failed to "

PairsOf(q, key) == SelectSeq(q, LAMBDA e : e.k = key)

\* C19: the query string built from a parameter mapping contains exactly the
\* entries whose value is not null, in the order of the mapping: a null entry
\* gives no pair, a list value gives one pair per element (not one joined
\* pair), any other value gives one pair; and when every entry is null or
\* the mapping is empty or absent the URL is the bare path with no `?`.
C19_QueryString ==
    (Done(1) /\ tasks[1].name = "_build_url") =>
        LET path == tasks[1].a[1]
            params == tasks[1].a[2]
            d == IF params.t = "dict" THEN params.v ELSE <<>>
            url == tasks[1].req.url
            q == url.query
        IN  /\ url.path = path
            /\ \A j \in 1..Len(q) : \E i \in 1..Len(d) : d[i].k = q[j].k
            /\ \A i \in 1..Len(d) :
                  LET pairs == PairsOf(q, d[i].k)
                  IN  CASE d[i].v.t = "none" -> Len(pairs) = 0
                        [] d[i].v.t = "list" ->
                              /\ Len(pairs) = Len(d[i].v.v)
                              /\ \A n \in 1..Len(pairs) : pairs[n].v = d[i].v.v[n]
                        [] OTHER ->
                              /\ Len(pairs) = 1
                              /\ pairs[1].v.t = d[i].v.t
                              /\ pairs[1].v.v = d[i].v.v
            /\ \A j1, j2 \in 1..Len(q) :
                  j1 < j2 =>
                      \E i1, i2 \in 1..Len(d) :
                          i1 <= i2 /\ d[i1].k = q[j1].k /\ d[i2].k = q[j2].k
            /\ (\A i \in 1..Len(d) : d[i].v.t = "none") => (~url.mark /\ q = <<>>)

\* the URL of a mapping with a null entry, a two-element list and a zero has
\* been built: ?date=a&date=b&_tag=0
C19_Witness ==
    /\ Done(1)
    /\ tasks[1].name = "_build_url"
    /\ tasks[1].a[2].t = "dict"
    /\ Len(tasks[1].a[2].v) = 3
    /\ tasks[1].a[2].v[1].v.t = "none"
    /\ tasks[1].a[2].v[2].v.t = "list"
    /\ Len(tasks[1].a[2].v[2].v.v) = 2
    /\ tasks[1].a[2].v[3].v.t = "int"
    /\ tasks[1].req.url.mark
    /\ Len(tasks[1].req.url.query) = 3
    /\ tasks[1].req.url.query[1].k = "date"
    /\ tasks[1].req.url.query[3].k = "_tag"

\* C20: search(type, params, count) issues exactly one GET to /{type} whose
\* query string is the given params followed by _count=count, and
\* search_system does the same against the path /.
C20_SearchRequest ==
    \A t \in Tasks :
        (tasks[t].nreq = 1 /\ tasks[t].op \in {"search", "search_system"})
            => LET a == tasks[t].a
                   params == IF tasks[t].op = "search" THEN a[2] ELSE a[1]
                   count == IF tasks[t].op = "search" THEN a[3] ELSE a[2]
                   given == IF params.t = "dict" THEN params.v ELSE <<>>
                   req == tasks[t].req
               IN  /\ req.method = "GET"
                   /\ req.url.path = IF tasks[t].op = "search" THEN <<"/", a[1].v>>
                                     ELSE <<"/">>
                   /\ Len(req.url.query) = Len(given) + 1
                   /\ \A i \in 1..Len(given) :
                         /\ req.url.query[i].k = given[i].k
                         /\ req.url.query[i].v.t = given[i].v.t
                         /\ req.url.query[i].v.v = given[i].v.v
                   /\ req.url.query[Len(given) + 1].k = "_count"
                   /\ req.url.query[Len(given) + 1].v = count

\* the optional query parameters of an operation: the position of the
\* argument and the name the operation table gives the parameter
TableNames(op) ==
    CASE op = "patient_everything" ->
            <<[i |-> 2, k |-> "start"], [i |-> 3, k |-> "end"], [i |-> 4, k |-> "_count"]>>
      [] op = "expand_valueset" ->
            <<[i |-> 2, k |-> "url"], [i |-> 3, k |-> "filter"], [i |-> 4, k |-> "count"]>>
      [] op = "compact" -> <<[i |-> 1, k |-> "column-family"]>>
      [] op = "reindex" -> <<[i |-> 1, k |-> "type"], [i |-> 2, k |-> "search-param"]>>
      [] op = "history" -> <<[i |-> 3, k |-> "_count"]>>

\* C21: for the operations with only optional query parameters (compartment
\* fetch, expand valueset, compaction, reindex, history), a call that
\* supplies none of them requests the bare path with no query string, and
\* each supplied optional parameter appears exactly once under its table
\* name, with the value supplied.
C21_OptionalParameters ==
    (Done(1) /\ tasks[1].name = "facade") =>
        LET a == tasks[1].a
            names == TableNames(tasks[1].op)
            url == tasks[1].req.url
            q == url.query
        IN  /\ (\A n \in 1..Len(names) : a[names[n].i].t = "none")
                  => (~url.mark /\ q = <<>>)
            /\ \A j \in 1..Len(q) : \E n \in 1..Len(names) : names[n].k = q[j].k
            /\ \A n \in 1..Len(names) :
                  LET v == a[names[n].i]
                      pairs == PairsOf(q, names[n].k)
                  IN  IF v.t = "none" THEN Len(pairs) = 0
                      ELSE /\ Len(pairs) = 1
                           /\ pairs[1].v.t = v.t
                           /\ pairs[1].v.v = v.v

\* the resource type an entry counts under
CountedAs(entry) ==
    IF entry.resource /\ entry.resourceType.t = "tok" THEN entry.resourceType.v
    ELSE "Unknown"

\* the number of `  - {rt}: {count}` lines of a summary text
LineCount(text) == (Len(text) - 7) \div 5

\* the resource type and the count of line n of a summary text
LineType(text, n) == text[5 * n + 2]
LineNumber(text, n) == text[5 * n + 4]

RECURSIVE SumOfLines(_, _)
SumOfLines(text, n) == IF n = 0 THEN 0 ELSE LineNumber(text, n) + SumOfLines(text, n - 1)

\* C22: the patient_everything summary reports, for each resource type, the
\* number of bundle entries of that type, entries without a resource type
\* counted under `Unknown`; it has one line per type that occurs, in sorted
\* order; the per-type counts sum to the reported total, and the total is
\* the number of entries of the bundle.
C22_Summary ==
    (Done(1) /\ tasks[1].name = "summary") =>
        LET result == tasks[1].a[2]
            entries == IF result.has_entry THEN result.entry ELSE <<>>
            text == tasks[1].text
            Occurs(rt) == {i \in 1..Len(entries) : CountedAs(entries[i]) = rt}
            Lines(rt) == {n \in 1..LineCount(text) : LineType(text, n) = rt}
        IN  /\ Len(text) = 7 + 5 * LineCount(text)
            /\ text[4] = Len(entries)
            /\ SumOfLines(text, LineCount(text)) = text[4]
            /\ \A n \in 1..LineCount(text) :
                  /\ LineType(text, n) \in {"Observation", "Patient", "Unknown"}
                  /\ LineNumber(text, n) = Cardinality(Occurs(LineType(text, n)))
                  /\ LineNumber(text, n) > 0
            /\ \A rt \in {"Observation", "Patient", "Unknown"} :
                  Cardinality(Lines(rt)) = IF Occurs(rt) = {} THEN 0 ELSE 1
            /\ \A n \in 1..(LineCount(text) - 1) :
                  \/ LineType(text, n) = "Observation"
                  \/ LineType(text, n) = "Patient" /\ LineType(text, n + 1) = "Unknown"

\* the summary of [Patient, Observation, Observation]: 3 resources,
\* Observation: 2, Patient: 1
C22_Witness ==
    /\ Done(1)
    /\ tasks[1].name = "summary"
    /\ tasks[1].a[2].has_entry
    /\ Len(tasks[1].a[2].entry) = 3
    /\ tasks[1].a[2].entry[1].resourceType = TokV("Patient")
    /\ tasks[1].a[2].entry[2].resourceType = TokV("Observation")
    /\ tasks[1].a[2].entry[3].resourceType = TokV("Observation")
    /\ tasks[1].text[4] = 3
    /\ LineCount(tasks[1].text) = 2
    /\ LineType(tasks[1].text, 1) = "Observation" /\ LineNumber(tasks[1].text, 1) = 2
    /\ LineType(tasks[1].text, 2) = "Patient" /\ LineNumber(tasks[1].text, 2) = 1

\* C23: a set_blaze_url call that completes successfully while a
\* test_connection with an override URL is in flight is not lost: when the
\* test_connection has returned, the active base URL is the one that
\* set_blaze_url call set.
C23_SetUrlNotLost ==
    \A t \in Tasks :
        (/\ Done(t)
         /\ tasks[t].name = "test_connection"
         /\ Truthy(tasks[t].test_url)
         /\ tasks[t].set_url # <<>>)
            => tasks[t].end_url = tasks[t].set_url

\* C24: in every reachable state, also while close() is suspended between
\* closing a handle and clearing the pool and tool calls interleave with it,
\* the pool maps no URL to a handle that has been closed, and _get_client
\* never hands out a closed handle.
C24_NoClosedHandleInPool ==
    /\ [](\A i \in 1..Len(clients) : ~handles[clients[i].v].closed)
    /\ [][\A t \in Tasks : Sends(t) => ~handles'[tasks'[t].h].closed]_vars

\* C25: no outbound search_resources or search_system request carries a
\* `_count` query parameter greater than max_page_size, for any combination
\* of the `count` argument (including 0) and the caller-supplied `params`
\* mapping (including a `_count` key inside params).
C25_CountBounded ==
    \A t \in Tasks :
        (tasks[t].nreq = 1 /\ tasks[t].name \in {"search_resources", "search_system"})
            => \A v \in QueryValues(tasks[t].req, "_count") :
                   v.t = "int" => v.v <= max_page_size

\* task t runs the connection tool `name` in this step
Runs(t, name) == tasks[t].pc = "idle" /\ tasks'[t].name = name

\* C26: set_blaze_url and get_blaze_url issue no outbound request and
\* neither create nor close a handle; a successful set_blaze_url(u) makes u
\* without its trailing slashes the active URL, which is what get_blaze_url
\* reports, and a set_blaze_url of the URL that is already active leaves the
\* active URL unchanged.
C26_UrlToolsFrame ==
    /\ [][\A t \in Tasks :
              (Runs(t, "set_blaze_url") \/ Runs(t, "get_blaze_url"))
                  => /\ handles' = handles
                     /\ clients' = clients
                     /\ tasks'[t].pc = "done"
                     /\ tasks'[t].nreq = 0
                     /\ tasks'[t].h = 0]_vars
    /\ [][\A t \in Tasks :
              (/\ Runs(t, "set_blaze_url")
               /\ tasks'[t].kind = "text"
               /\ tasks'[t].text[1] # "Error: ")
                  => /\ Stripped(base_url', tasks'[t].arguments["url"].v)
                     /\ Stripped(base_url, tasks'[t].arguments["url"].v)
                            => base_url' = base_url]_vars
    /\ [][\A t \in Tasks :
              Runs(t, "get_blaze_url")
                  => /\ base_url' = base_url
                     /\ tasks'[t].kind = "text"
                     /\ tasks'[t].text[1] = "Current Blaze URL: "
                     /\ tasks'[t].text[2] = base_url]_vars

\* set_blaze_url("http://a/") has returned while http://a was already the
\* active URL, with no handle made
C26_Witness ==
    \E t \in Tasks :
        /\ Done(t)
        /\ tasks[t].name = "set_blaze_url"
        /\ "url" \in DOMAIN tasks[t].arguments
        /\ tasks[t].arguments["url"].t = "str"
        /\ tasks[t].arguments["url"].v = UrlASlash
        /\ tasks[t].old_url = UrlA
        /\ base_url = UrlA
        /\ tasks[t].text[1] # "Error: "
        /\ handles = <<>>

\* the arguments fit the input schema of the tool: the required fields are
\* there, and count and url have the type the schemas give them
WellFormed(name, arguments) ==
    /\ "count" \in DOMAIN arguments => arguments["count"].t = "int"
    /\ "url" \in DOMAIN arguments => arguments["url"].t = "str"
    /\ name = "set_blaze_url" => "url" \in DOMAIN arguments
    /\ name \in (Range(CRUD_TOOLS) \cup Range(ADVANCED_TOOLS)
                    \cup {"search_resources", "validate_code", "lookup_code"})
          => \A key \in DOMAIN Required : key \in DOMAIN arguments

\* the group handlers that do not return None for the call
Answering(name, arguments) ==
    {i \in 1..Len(handlers) : Handler(handlers[i], name, arguments).kind # "none"}

\* C27: the tool catalog and the dispatcher agree, for both values of the
\* admin-tools flag: the names of get_all_tools are pairwise distinct, and a
\* listed name dispatched with well-formed arguments is answered by exactly
\* one group handler, the one of the group that lists it, and never with
\* the unknown-tool text.
C27_CatalogAgrees ==
    /\ \A i, j \in 1..Len(get_all_tools) :
          i # j => get_all_tools[i] # get_all_tools[j]
    /\ \A t \in Tasks :
          (/\ Done(t)
           /\ tasks[t].name \in Range(get_all_tools)
           /\ WellFormed(tasks[t].name, tasks[t].arguments))
              => /\ Cardinality(Answering(tasks[t].name, tasks[t].arguments)) = 1
                 /\ tasks[t].by = Owner(tasks[t].name)
                 /\ tasks[t].kind = "text"
                 /\ tasks[t].text[1] # "Unknown tool: "

\* with the flag disabled, patient_everything called with a count has been
\* answered by the advanced group after a 200 response
C27_Witness ==
    /\ ~admin_tools_enabled
    /\ \E t \in Tasks :
          /\ Done(t)
          /\ tasks[t].name = "patient_everything"
          /\ "count" \in DOMAIN tasks[t].arguments
          /\ tasks[t].arguments["count"] = IntV(10)
          /\ tasks[t].by = "advanced"
          /\ tasks[t].resp = [kind |-> "status", code |-> 200]
          /\ tasks[t].text[1] = "Patient "

=============================================================================
